---- MODULE Spec2Model ----
(***************************************************************************)
(* The HTTP probe of docker-slim and the build / profile commands that     *)
(* drive it.                                                               *)
(*                                                                         *)
(*   NewCustomProbe   internal/app/master/inspectors/container/probes/     *)
(*                    http/custom_probe.go (the port planner)              *)
(*   CustomProbe.Start   the same file (the probe worker goroutine)        *)
(*   OnBuild          internal/app/master/commands/build.go                *)
(*   OnProfile        the profile command (src/unnamed/part_000)           *)
(*                                                                         *)
(* SpecPlan explores NewCustomProbe alone over bounded inputs.  Spec       *)
(* explores one build or profile invocation together with its probe        *)
(* worker.                                                                 *)
(***************************************************************************)
EXTENDS Integers, Sequences, FiniteSets, TLC

VARIABLES
    \* inputs of NewCustomProbe and its result
    nsPorts,        \* inspector.ContainerInfo.NetworkSettings.Ports
    ExposedPorts,   \* inspector.ImageInspector.DockerfileInfo.ExposedPorts
    TargetPorts,    \* probe.TargetPorts
    Ports,          \* probe.Ports (the PortPlan)
    probeBuilt,     \* "no", "yes" (NewCustomProbe returned), "panic"
    \* the other fields of the CustomProbe
    Cmds, RetryCount, RetryWait, ProbeFull, PrintState,
    doneChan,       \* "open" or "closed"
    \* the invocation (OnBuild / OnProfile)
    command,        \* "build" or "profile"
    Mode,           \* continueAfter.Mode
    doHTTPProbe,
    ContinueChan,   \* continueAfter.ContinueChan: "signal" (the caller's) or "done"
    pc,             \* the next step of the command
    procState,      \* "running", "exited" (os.Exit), "failed" (a fatal
                    \* error), "panicked"
    exitCode,
    cmdReportState, \* cmdReport.State
    savedReport,    \* the state tag cmdReport.Save() wrote, or "none"
    out,            \* the lines the command printed on stdout, in order
    calls,          \* the collaborator calls made, in order
    gateBy,         \* what resolved the continue-after gate, or "none"
    \* the caller's signal channel
    sigPending, sigSent,
    \* the probe worker (the goroutine of CustomProbe.Start)
    wpc,            \* the worker's position
    portIdx, cmdIdx, protoIdx, attempt,
    callCount, errCount, okCount,
    summary,        \* the <<total, failures, successful>> printed, or <<>>
    closeCount,     \* how many times close(p.doneChan) ran
    sleepSecs,      \* seconds of the time.Sleep the worker is in, else 0
    lastErr,        \* the class of the error it sleeps after, else "none"
    openBodies,     \* response bodies obtained and not yet closed
    probeOut        \* the lines the worker printed on stdout, in order

planVars == <<nsPorts, ExposedPorts, TargetPorts, Ports, probeBuilt>>

probeVars == <<Cmds, RetryCount, RetryWait, ProbeFull, PrintState>>

orchVars ==
    <<command, Mode, doHTTPProbe, ContinueChan, pc, exitCode, cmdReportState,
      savedReport, calls, gateBy>>

sigVars == <<sigPending, sigSent>>

workerVars ==
    <<wpc, portIdx, cmdIdx, protoIdx, attempt, callCount, errCount, okCount,
      summary, closeCount, sleepSecs, lastErr, openBodies, probeOut, doneChan>>

vars == <<planVars, probeVars, orchVars, sigVars, workerVars, procState, out>>

----------------------------------------------------------------------------
(* Bounds of the model. *)

\* longest ExposedPorts list explored
MaxExposed == 2
\* longest TargetPorts list explored
MaxTargets == 2

----------------------------------------------------------------------------
(* Ports.  A dockerapi.Port is "<num>/<proto>"; an EXPOSE entry may lack   *)
(* the "/<proto>" part, which is proto = "" here.                          *)

PortSpec(n, p) == [num |-> n, proto |-> p]

\* inspector.CmdPort and inspector.EvtPort, the two control ports
CmdPort == PortSpec(65501, "tcp")
EvtPort == PortSpec(65502, "tcp")

\* the container ports a bound-port map may have as keys
ContainerPorts ==
    {PortSpec(80, "tcp"), PortSpec(80, "udp"), PortSpec(443, "tcp"), CmdPort, EvtPort}

\* the host ports the docker daemon hands out
HostPorts == {"32768", "32769", "32770"}

\* the binding lists of one container port: none (exposed but unpublished)
\* or one host port
BindingLists == {<<>>} \cup {<<h>> : h \in HostPorts}

\* Two container ports of the same protocol never share a host port; a tcp
\* and a udp port may (the daemon allocates per protocol).
HostPortsDistinct(ns) ==
    \A k1, k2 \in DOMAIN ns :
        (k1 # k2 /\ k1.proto = k2.proto /\ ns[k1] # <<>> /\ ns[k2] # <<>>)
            => ns[k1][1] # ns[k2][1]

PortMaps ==
    {ns \in UNION {[K -> BindingLists] : K \in SUBSET ContainerPorts} :
        HostPortsDistinct(ns)}

\* the entries an image's EXPOSE list is drawn from
ExposeEntries ==
    {PortSpec(80, ""), PortSpec(80, "tcp"), PortSpec(80, "udp"),
     PortSpec(443, "tcp"), PortSpec(65501, "")}

\* the numbers --http-probe-ports is drawn from (8080 is never bound)
TargetNumbers == {80, 8080, 65501}

SeqsUpTo(S, n) == UNION {[1..m -> S] : m \in 0..n}

----------------------------------------------------------------------------
(* NewCustomProbe: the port planner (custom_probe.go:61-112).              *)

\* lines 61-68: the host port of every key but the two control ports
AvailablePorts(ns) ==
    {ns[k][1] : k \in {k \in DOMAIN ns : k # CmdPort /\ k # EvtPort /\ ns[k] # <<>>}}

\* line 67: nsPortData[0] of an empty binding list is out of range
AvailablePanics(ns) ==
    \E k \in DOMAIN ns : k # CmdPort /\ k # EvtPort /\ ns[k] = <<>>

\* a target looked up under its udp key
TargetSpecUdp(pnum) == PortSpec(pnum, "udp")

\* line 74: fmt.Sprintf("%v/tcp", pnum)
TargetSpec(pnum) == PortSpec(pnum, "tcp")

\* lines 87-89: an entry without "/" gets "/tcp" appended
NormalizeExposed(portInfo) ==
    IF portInfo.proto = "" THEN PortSpec(portInfo.num, "tcp") ELSE portInfo

\* lines 72-81: the bound targets, in the order given
RECURSIVE FilterTargets(_, _)
FilterTargets(ns, targets) ==
    IF targets = <<>> THEN <<>>
    ELSE LET pspec == TargetSpec(Head(targets))
             rest == FilterTargets(ns, Tail(targets))
         IN  IF pspec \in DOMAIN ns THEN <<ns[pspec][1]>> \o rest ELSE rest

\* line 76: [0] of a bound target with no binding
TargetsPanic(ns, targets) ==
    \E i \in 1..Len(targets) :
        TargetSpec(targets[i]) \in DOMAIN ns /\ ns[TargetSpec(targets[i])] = <<>>

\* lines 84-105: walk the EXPOSE list from the last entry (index epi) down
\* to the first; returns the ports appended
RECURSIVE OrderExposed(_, _, _)
OrderExposed(ns, exposed, epi) ==
    IF epi = 0 THEN <<>>
    ELSE LET pspec == NormalizeExposed(exposed[epi])
         IN  IF pspec \in DOMAIN ns
             THEN <<ns[pspec][1]>> \o OrderExposed(ns, exposed, epi - 1)
             ELSE OrderExposed(ns, exposed, epi - 1)

\* line 94: [0] of an exposed port with no binding
ExposedPanic(ns, exposed) ==
    \E i \in 1..Len(exposed) :
        NormalizeExposed(exposed[i]) \in DOMAIN ns
        /\ ns[NormalizeExposed(exposed[i])] = <<>>

Range(s) == {s[i] : i \in 1..Len(s)}

\* lines 97-100: what delete(availablePorts, hostPort) leaves
RemainingPorts(available, appended) == available \ Range(appended)

\* lines 107-109: range over a Go map visits the keys in any order
Orderings(S) ==
    {s \in [1..Cardinality(S) -> S] : Range(s) = S}

\* NewCustomProbe indexes [0] of an empty binding list: a run-time panic
NewCustomProbePanics(ns, exposed, targets) ==
    \/ AvailablePanics(ns)
    \/ Len(targets) > 0 /\ TargetsPanic(ns, targets)
    \/ Len(targets) = 0 /\ ExposedPanic(ns, exposed)

\* the values probe.Ports can have when NewCustomProbe returns
NewCustomProbePorts(ns, exposed, targets) ==
    IF Len(targets) > 0
    THEN {FilterTargets(ns, targets)}
    ELSE LET appended == OrderExposed(ns, exposed, Len(exposed))
         IN  {appended \o rest :
                 rest \in Orderings(RemainingPorts(AvailablePorts(ns), appended))}

----------------------------------------------------------------------------
(* The probe's configuration.                                              *)

\* probeRetryCount, custom_probe.go:21
probeRetryCount == 5

\* longest command list explored
MaxCmds == 2
\* largest RetryCount explored (0 selects probeRetryCount)
MaxRetryCount == 1
\* most attempts the explored configurations can make on one port
MaxAttempts == 5

\* config.HTTPProbeCmd: the method and the protocol decide what Start does.
\* "GE T" is not an HTTP token, so http.NewRequest rejects it.
ProbeCmds ==
    {[Method |-> "GET", Protocol |-> ""],
     [Method |-> "POST", Protocol |-> "http"],
     [Method |-> "GE T", Protocol |-> "https"]}

RetryWaits == {0, 10}

\* a probe that speaks http whatever the command says
ProtocolsHttpOnly(cmd) == <<"http">>

\* lines 155-160
Protocols(cmd) ==
    IF cmd.Protocol = "" THEN <<"http", "https">> ELSE <<cmd.Protocol>>

\* a retry budget that ignores RetryCount
MaxRetriesDefault(retryCount) == probeRetryCount

\* lines 165-168
MaxRetries(retryCount) ==
    IF retryCount > 0 THEN retryCount ELSE probeRetryCount

\* the (protocol of a command) pairs one port is exercised with
RECURSIVE Slots(_)
Slots(cmds) ==
    IF cmds = <<>> THEN 0 ELSE Len(Protocols(Head(cmds))) + Slots(Tail(cmds))

\* a caller that asks the probe to print nothing
CallerPrintStateOff == FALSE

\* the printState argument both commands pass (build.go:234, part_000:146)
CallerPrintState == TRUE

\* the (command list, retry count, retry wait, full) settings explored
ProbeConfigs ==
    {c \in [Cmds : SeqsUpTo(ProbeCmds, MaxCmds), RetryCount : 0..MaxRetryCount,
            RetryWait : RetryWaits, ProbeFull : BOOLEAN] :
        Slots(c.Cmds) * MaxRetries(c.RetryCount) <= MaxAttempts}

\* the outcomes of httpClient.Do (custom_probe.go:197, 228-246)
Outcomes == {"ok", "notReady", "webError", "otherError"}

----------------------------------------------------------------------------
(* CustomProbe.Start: the worker (custom_probe.go:123-272).                *)

\* one wait for every class of error
ErrorWaitFlat(retryWait, outcome) == IF retryWait > 0 THEN retryWait ELSE 8

\* lines 170-177 and 234-246: the seconds slept after a failed attempt
ErrorWait(retryWait, outcome) ==
    CASE outcome = "notReady" -> IF retryWait > 0 THEN retryWait * 2 ELSE 16
      [] outcome = "webError" -> IF retryWait > 0 THEN retryWait ELSE 8
      [] OTHER -> IF retryWait > 0 THEN retryWait \div 2 ELSE 4

\* line 180: http.NewRequest returns (nil, err) for an invalid method; the
\* error is overwritten at line 197 without having been read
NewRequestFails(cmd) == cmd.Method \notin {"GET", "POST"}

\* a port loop without the break of line 148
PortLoopAll(ports, cmds, full, p, ok) ==
    IF p > Len(ports) \/ Len(cmds) = 0 THEN [port |-> 0, cmd |-> 0, proto |-> 0]
    ELSE [port |-> p, cmd |-> 1, proto |-> 1]

\* lines 146-152: the port loop from index p on, with ok successes so far:
\* the next (port, command, protocol) to exercise, or port = 0 when the
\* loop is over
RECURSIVE PortLoop(_, _, _, _, _)
PortLoop(ports, cmds, full, p, ok) ==
    IF p > Len(ports) \/ (ok > 0 /\ ~full) THEN [port |-> 0, cmd |-> 0, proto |-> 0]
    ELSE IF Len(cmds) = 0 THEN PortLoop(ports, cmds, full, p + 1, ok)
    ELSE [port |-> p, cmd |-> 1, proto |-> 1]

\* a worker that stops after its first triple
AfterTripleStop(ports, cmds, full, p, c, pr, ok) ==
    [port |-> 0, cmd |-> 0, proto |-> 0]

\* lines 152, 162: what follows the retry loop of (p, c, pr)
AfterTriple(ports, cmds, full, p, c, pr, ok) ==
    IF pr < Len(Protocols(cmds[c])) THEN [port |-> p, cmd |-> c, proto |-> pr + 1]
    ELSE IF c < Len(cmds) THEN [port |-> p, cmd |-> c + 1, proto |-> 1]
    ELSE PortLoop(ports, cmds, full, p + 1, ok)

\* a warning that does not tell no calls from no successful calls
WarningNoSuccessOnly(calls_, oks) ==
    IF oks = 0 THEN "warning=no.successful.calls" ELSE ""

\* lines 260-266
Warning(calls_, oks) ==
    IF calls_ = 0 THEN "warning=no.calls"
    ELSE IF oks = 0 THEN "warning=no.successful.calls"
    ELSE ""

\* lines 256-269: the lines the worker prints when the loops are over
SummaryLines(printState, calls_, oks) ==
    IF printState
    THEN <<"info=http.probe.summary", "state=http.probe.done " \o Warning(calls_, oks)>>
    ELSE <<>>

\* the worker moves to position nxt, or to the summary when nxt.port = 0
GoTo(nxt) ==
    /\ portIdx' = nxt.port
    /\ cmdIdx' = nxt.cmd
    /\ protoIdx' = nxt.proto
    /\ attempt' = 0
    /\ sleepSecs' = 0
    /\ lastErr' = "none"
    /\ wpc' = IF nxt.port = 0 THEN "summary" ELSE "call"

\* what no step of the worker changes
NotTheWorkers == UNCHANGED <<planVars, probeVars, orchVars, sigVars, out>>

\* lines 125-129: the 9 s warm-up, then state=http.probe.running
WorkerWarmup ==
    /\ procState = "running"
    /\ wpc = "warmup"
    /\ probeOut' =
          IF PrintState THEN Append(probeOut, "state=http.probe.running") ELSE probeOut
    /\ GoTo(PortLoop(Ports, Cmds, ProbeFull, 1, 0))
    /\ UNCHANGED <<callCount, errCount, okCount, summary, closeCount, openBodies,
                   doneChan, procState>>
    /\ NotTheWorkers

\* lines 180-197, a request that cannot be built: req is nil and
\* req.Header.Add, req.SetBasicAuth or httpClient.Do dereferences it.  The
\* panic of a goroutine ends the process.
WorkerCallPanics ==
    /\ procState = "running"
    /\ wpc = "call"
    /\ NewRequestFails(Cmds[cmdIdx])
    /\ procState' = "panicked"
    /\ UNCHANGED workerVars
    /\ NotTheWorkers

\* lines 180-247: one attempt, up to the time.Sleep of a failed one, the
\* target answering with one of outcomes
WorkerCallWith(outcomes) ==
    /\ procState = "running"
    /\ wpc = "call"
    /\ ~NewRequestFails(Cmds[cmdIdx])
    /\ \E outcome \in outcomes :
        /\ callCount' = callCount + 1
        /\ IF outcome = "ok"
           THEN /\ okCount' = okCount + 1
                /\ openBodies' = openBodies + 1
                /\ GoTo(AfterTriple(Ports, Cmds, ProbeFull, portIdx, cmdIdx,
                                    protoIdx, okCount + 1))
                /\ UNCHANGED errCount
           ELSE /\ errCount' = errCount + 1
                /\ sleepSecs' = ErrorWait(RetryWait, outcome)
                /\ lastErr' = outcome
                /\ wpc' = "sleeping"
                /\ UNCHANGED <<okCount, openBodies, portIdx, cmdIdx, protoIdx, attempt>>
    /\ UNCHANGED <<summary, closeCount, probeOut, doneChan, procState>>
    /\ NotTheWorkers

\* lines 180-247 with any target
WorkerCall == WorkerCallWith(Outcomes)

\* lines 180-247 with a target that resets every connection: httpClient.Do
\* returns a *url.Error that is not io.EOF (lines 234-241)
WorkerCallReset == WorkerCallWith({"webError"})

\* lines 237-249: time.Sleep returns; i++ and the loop test
WorkerWake ==
    /\ procState = "running"
    /\ wpc = "sleeping"
    /\ IF attempt + 1 < MaxRetries(RetryCount)
       THEN /\ attempt' = attempt + 1
            /\ sleepSecs' = 0
            /\ lastErr' = "none"
            /\ wpc' = "call"
            /\ UNCHANGED <<portIdx, cmdIdx, protoIdx>>
       ELSE GoTo(AfterTriple(Ports, Cmds, ProbeFull, portIdx, cmdIdx, protoIdx,
                             okCount))
    /\ UNCHANGED <<callCount, errCount, okCount, summary, closeCount, openBodies,
                   probeOut, doneChan, procState>>
    /\ NotTheWorkers

\* lines 254-269: the summary and the state=http.probe.done line
WorkerSummary ==
    /\ procState = "running"
    /\ wpc = "summary"
    /\ probeOut' = probeOut \o SummaryLines(PrintState, callCount, okCount)
    /\ summary' = IF PrintState THEN <<callCount, errCount, okCount>> ELSE summary
    /\ wpc' = "close"
    /\ UNCHANGED <<portIdx, cmdIdx, protoIdx, attempt, callCount, errCount, okCount,
                   closeCount, sleepSecs, lastErr, openBodies, doneChan, procState>>
    /\ NotTheWorkers

\* line 271: close(p.doneChan)
WorkerClose ==
    /\ procState = "running"
    /\ wpc = "close"
    /\ doneChan' = "closed"
    /\ closeCount' = closeCount + 1
    /\ wpc' = "return"
    /\ UNCHANGED <<portIdx, cmdIdx, protoIdx, attempt, callCount, errCount, okCount,
                   summary, sleepSecs, lastErr, openBodies, probeOut, procState>>
    /\ NotTheWorkers

\* line 272: the function returns and the deferred res.Body.Close() calls
\* of line 206 run
WorkerReturn ==
    /\ procState = "running"
    /\ wpc = "return"
    /\ openBodies' = 0
    /\ wpc' = "returned"
    /\ UNCHANGED <<portIdx, cmdIdx, protoIdx, attempt, callCount, errCount, okCount,
                   summary, closeCount, sleepSecs, lastErr, probeOut, doneChan,
                   procState>>
    /\ NotTheWorkers

Worker ==
    \/ WorkerWarmup
    \/ WorkerCallPanics
    \/ WorkerCall
    \/ WorkerWake
    \/ WorkerSummary
    \/ WorkerClose
    \/ WorkerReturn

----------------------------------------------------------------------------
(* OnBuild (build.go:30-444) and OnProfile (part_000:25-235).              *)

\* continueAfter.Mode; "other" stands for any mode the switch does not name
Modes == {"enter", "signal", "timeout", "probe", "other"}

h1 == "32768"
h2 == "32769"
h3 == "32770"

\* what the inspectors hold when the command reaches NewCustomProbe, with
\* the --http-probe-ports given: the control ports are always published
ControlOnly == (CmdPort :> <<h1>>) @@ (EvtPort :> <<h2>>)

PlanInputs ==
    {[ns |-> ControlOnly, exposed |-> <<>>, targets |-> <<>>],
     [ns |-> ControlOnly @@ (PortSpec(80, "tcp") :> <<h3>>),
      exposed |-> <<PortSpec(80, "")>>, targets |-> <<>>],
     [ns |-> ControlOnly @@ (PortSpec(80, "tcp") :> <<h3>>)
                @@ (PortSpec(80, "udp") :> <<h2>>),
      exposed |-> <<PortSpec(80, "udp"), PortSpec(80, "")>>, targets |-> <<>>],
     [ns |-> ControlOnly @@ (PortSpec(80, "tcp") :> <<h3>>),
      exposed |-> <<>>, targets |-> <<8080>>],
     [ns |-> ControlOnly @@ (PortSpec(443, "tcp") :> <<>>),
      exposed |-> <<>>, targets |-> <<>>]}

\* errutil.FailOn(err): whether the error is fatal, that is, ends the run
FailOn(err) == err

\* errutil.FailOn with an error, and errutil.Fail: the process ends.  The
\* call is handed the error alone, never cmdReport, and the command assigns
\* cmdReport.State nowhere near it: the report stays as it is, unsaved.
Fail(call) ==
    /\ procState' = "failed"
    /\ calls' = calls \o call
    /\ UNCHANGED <<pc, out, exitCode>>

\* the steps that only move the command on
Continue(to, call, lines) ==
    /\ pc' = to
    /\ calls' = calls \o call
    /\ out' = out \o lines
    /\ UNCHANGED <<procState, exitCode>>

\* an exit that lets the command go on
ExitIgnored(code, call, lines) == Continue("newImageInspector", call, lines)

\* os.Exit(code), after printing lines
Exit(code, call, lines) ==
    /\ procState' = "exited"
    /\ exitCode' = code
    /\ calls' = calls \o call
    /\ out' = out \o lines
    /\ UNCHANGED pc

\* a collaborator call that errutil.FailOn guards
Guarded(err, to, call, lines) ==
    IF FailOn(err) THEN Fail(call) ELSE Continue(to, call, lines)

\* a warning that ends the run as errutil.FailOn does
WarnOnFatal(err) == err

\* errutil.WarnOn(err): whether the error ends the run; it is only logged
WarnOn(err) == FALSE

\* a collaborator call whose error errutil.WarnOn is handed
Warned(err, to, call, lines) ==
    IF WarnOn(err) THEN Fail(call) ELSE Continue(to, call, lines)

RestOfOrch ==
    UNCHANGED <<command, Mode, doHTTPProbe, ContinueChan, cmdReportState,
                savedReport, gateBy>>

Others == UNCHANGED <<planVars, probeVars, sigVars, workerVars>>

\* build.go:73-78, part_000:60-61.  (The basic-image build of a
\* Dockerfile, build.go:80-124, happens before and is not modelled.)
Begin ==
    /\ procState = "running"
    /\ pc = "begin"
    /\ Continue("confirmNetwork", <<>>, <<"state=started">>)
    /\ RestOfOrch /\ Others

\* build.go:136-140, part_000:70-74
ConfirmNetwork ==
    /\ procState = "running"
    /\ pc = "confirmNetwork"
    /\ \E known \in BOOLEAN :
        IF known
        THEN Continue("newImageInspector", <<"confirmNetwork">>, <<>>)
        ELSE Exit(-111, <<"confirmNetwork">>, <<"info=param.error", "state=exited">>)
    /\ RestOfOrch /\ Others

\* a missing image that is inspected all the same
NoImageInspects == "inspect"

\* build.go:145-149, part_000:79-83: the return when the image is missing
NoImageNext == "returned"

\* build.go:142-151, part_000:76-85
NewImageInspector ==
    /\ procState = "running"
    /\ pc = "newImageInspector"
    /\ \E res \in {"error", "noImage", "ok"} :
        CASE res = "error" -> Guarded(TRUE, "inspect", <<"image.NewInspector">>, <<>>)
          [] res = "noImage" ->
                Continue(NoImageNext, <<"image.NewInspector", "NoImage">>,
                         <<"target image not found", "state=exited">>)
          [] OTHER ->
                Continue("inspect", <<"image.NewInspector", "NoImage">>,
                         <<"state=image.inspection.start">>)
    /\ RestOfOrch /\ Others

\* build.go:154-155, part_000:88-89
InspectImage ==
    /\ procState = "running"
    /\ pc = "inspect"
    /\ \E err \in BOOLEAN :
        Guarded(err, "processImage", <<"imageInspector.Inspect">>, <<>>)
    /\ RestOfOrch /\ Others

\* build.go:166-192, part_000:100-104
ProcessImageData ==
    /\ procState = "running"
    /\ pc = "processImage"
    /\ \E err \in BOOLEAN :
        Guarded(err, "newContainerInspector",
                <<"imageInspector.ProcessCollectedData">>,
                <<"state=image.inspection.done", "state=container.inspection.start">>)
    /\ RestOfOrch /\ Others

\* build.go:194-213, part_000:106-125
NewContainerInspector ==
    /\ procState = "running"
    /\ pc = "newContainerInspector"
    /\ \E err \in BOOLEAN :
        Guarded(err, "runContainer", <<"container.NewInspector">>, <<>>)
    /\ RestOfOrch /\ Others

\* build.go:216-223, part_000:128-135
RunContainer ==
    /\ procState = "running"
    /\ pc = "runContainer"
    /\ \E err \in BOOLEAN :
        Guarded(err, "probe", <<"RunContainer">>, <<"info=container">>)
    /\ RestOfOrch /\ Others

\* build.go:247, part_000:159: the channel the gate will read once the probe
\* has been started
BoundChan(mode, chan) == "done"

\* build.go:227-231 with no probing asked for
SkipProbe ==
    /\ procState = "running"
    /\ pc = "probe"
    /\ ~(doHTTPProbe \/ Mode = "probe")
    /\ Continue("gate", <<>>, <<>>)
    /\ RestOfOrch /\ Others

\* build.go:227-235: NewCustomProbe panics on a port without a binding
ProbePanics ==
    /\ procState = "running"
    /\ pc = "probe"
    /\ doHTTPProbe \/ Mode = "probe"
    /\ \E in \in PlanInputs :
        /\ NewCustomProbePanics(in.ns, in.exposed, in.targets)
        /\ nsPorts' = in.ns
        /\ ExposedPorts' = in.exposed
        /\ TargetPorts' = in.targets
    /\ doHTTPProbe' = TRUE
    /\ probeBuilt' = "panic"
    /\ procState' = "panicked"
    /\ calls' = Append(calls, "NewCustomProbe")
    /\ UNCHANGED <<Ports, probeVars, sigVars, workerVars, out>>
    /\ UNCHANGED <<command, Mode, ContinueChan, pc, exitCode, cmdReportState,
                   savedReport, gateBy>>

\* a test that finds no plan empty
PlanIsEmptyNever(ports) == FALSE

\* build.go:236, part_000:148: len(probe.Ports) == 0
PlanIsEmpty(ports) == Len(ports) = 0

\* build.go:227-248, part_000:139-160: build the probe; leave when its plan
\* is empty, start it otherwise
StartProbe ==
    /\ procState = "running"
    /\ pc = "probe"
    /\ doHTTPProbe \/ Mode = "probe"
    /\ doHTTPProbe' = TRUE
    /\ \E in \in PlanInputs :
        /\ ~NewCustomProbePanics(in.ns, in.exposed, in.targets)
        /\ nsPorts' = in.ns
        /\ ExposedPorts' = in.exposed
        /\ TargetPorts' = in.targets
        /\ Ports' \in NewCustomProbePorts(in.ns, in.exposed, in.targets)
    /\ probeBuilt' = "yes"
    /\ \E c \in ProbeConfigs :
        /\ Cmds' = c.Cmds
        /\ RetryCount' = c.RetryCount
        /\ RetryWait' = c.RetryWait
        /\ ProbeFull' = c.ProbeFull
    /\ PrintState' = CallerPrintState
    /\ IF PlanIsEmpty(Ports')
       THEN /\ Continue("returned",
                        <<"NewCustomProbe", "FinishMonitoring", "ShutdownContainer">>,
                        <<"state=http.probe.error", "state=exited">>)
            /\ UNCHANGED <<wpc, ContinueChan>>
       ELSE /\ Continue("gate", <<"NewCustomProbe", "probe.Start">>,
                        IF PrintState' THEN <<"state=http.probe.starting">> ELSE <<>>)
            /\ wpc' = "warmup"
            /\ ContinueChan' = BoundChan(Mode, ContinueChan)
    /\ UNCHANGED <<portIdx, cmdIdx, protoIdx, attempt, callCount, errCount, okCount,
                   summary, closeCount, sleepSecs, lastErr, openBodies, probeOut,
                   doneChan>>
    /\ UNCHANGED <<command, Mode, cmdReportState, savedReport, gateBy, sigVars>>

\* a gate that goes straight to the shutdown
AfterGateShutdown == "shutdown"

\* build.go:271-273, part_000:183-185: what follows the switch on the mode
AfterGate == "finishMonitoring"

\* a receive that does not wait for the channel
ChanReadyNoWait == TRUE

\* a receive on continueAfter.ContinueChan can proceed
ChanReady ==
    \/ ContinueChan = "signal" /\ sigPending
    \/ ContinueChan = "done" /\ doneChan = "closed"

\* a gate that reads the channel under every policy
WaitsOnChanAlways(mode) == TRUE

\* build.go:255-266, part_000:167-178: the policies whose case receives on
\* continueAfter.ContinueChan
WaitsOnChan(mode) == mode \in {"signal", "probe"}

\* build.go:250-271, part_000:162-183: the continue-after gate
Gate ==
    /\ procState = "running"
    /\ pc = "gate"
    /\ WaitsOnChan(Mode) => ChanReady
    /\ CASE Mode = "enter" ->
               /\ gateBy' = "stdin"
               /\ Continue(AfterGate, <<>>,
                           <<"info=prompt", "state=container.inspection.finishing">>)
               /\ UNCHANGED sigPending
         [] Mode = "timeout" ->
               /\ gateBy' = "timer"
               /\ Continue(AfterGate, <<>>,
                           <<"info=prompt", "info=event",
                             "state=container.inspection.finishing">>)
               /\ UNCHANGED sigPending
         [] Mode \in {"signal", "probe"} ->
               /\ gateBy' = ContinueChan
               /\ sigPending' = IF ContinueChan = "signal" THEN FALSE ELSE sigPending
               /\ Continue(AfterGate, <<>>,
                           <<"info=prompt",
                             IF Mode = "signal" THEN "info=event message='got SIGUSR1'"
                             ELSE "info=event message='HTTP probe is done'",
                             "state=container.inspection.finishing">>)
         [] OTHER ->
               /\ Fail(<<>>)
               /\ UNCHANGED <<gateBy, sigPending>>
    /\ UNCHANGED <<command, Mode, doHTTPProbe, ContinueChan, cmdReportState,
                   savedReport, sigSent>>
    /\ UNCHANGED <<planVars, probeVars, workerVars>>

\* build.go:273, part_000:185
FinishMonitoring ==
    /\ procState = "running"
    /\ pc = "finishMonitoring"
    /\ Continue("shutdown", <<"FinishMonitoring">>, <<>>)
    /\ RestOfOrch /\ Others

\* build.go:275-279, part_000:187-191: an error is only warned about
ShutdownContainer ==
    /\ procState = "running"
    /\ pc = "shutdown"
    /\ \E err \in BOOLEAN :
        Warned(err, "hasData",
               <<IF err THEN "ShutdownContainer:error" ELSE "ShutdownContainer">>,
               <<"state=container.inspection.artifact.processing">>)
    /\ RestOfOrch /\ Others

\* a run without data that processes the artifacts all the same
NoDataProcesses == "processContainer"

\* build.go:282-286, part_000:194-198: the return when no data was collected
NoDataNext == "returned"

\* build.go:281-287, part_000:193-199
HasCollectedData ==
    /\ procState = "running"
    /\ pc = "hasData"
    /\ \E has \in BOOLEAN :
        IF has
        THEN Continue("processContainer", <<"HasCollectedData">>, <<>>)
        ELSE Continue(NoDataNext,
                      <<"HasCollectedData", "ShowFatImageDockerInstructions">>,
                      <<"info=results", "state=exited">>)
    /\ RestOfOrch /\ Others

\* build.go:290-298, part_000:202-207
ProcessContainerData ==
    /\ procState = "running"
    /\ pc = "processContainer"
    /\ \E err \in BOOLEAN :
        /\ IF command = "build"
           THEN Guarded(err, "newImageBuilder",
                        <<"containerInspector.ProcessCollectedData">>,
                        <<"state=container.inspection.done", "state=building">>)
           ELSE Guarded(err, "finish",
                        <<"containerInspector.ProcessCollectedData">>,
                        <<"state=container.inspection.done", "state=completed">>)
        /\ cmdReportState' =
              IF command = "profile" /\ ~FailOn(err) THEN "completed" ELSE cmdReportState
    /\ UNCHANGED <<command, Mode, doHTTPProbe, ContinueChan, savedReport, gateBy>>
    /\ Others

\* build.go:300-312
NewImageBuilder ==
    /\ procState = "running"
    /\ pc = "newImageBuilder"
    /\ \E err \in BOOLEAN :
        Guarded(err, "build", <<"builder.NewImageBuilder">>, <<>>)
    /\ RestOfOrch /\ Others

\* build.go:314-325
BuildImage ==
    /\ procState = "running"
    /\ pc = "build"
    /\ \E err \in BOOLEAN :
        /\ Guarded(err, "newImageInspector2", <<"builder.Build">>, <<"state=completed">>)
        /\ cmdReportState' = IF FailOn(err) THEN cmdReportState ELSE "completed"
    /\ UNCHANGED <<command, Mode, doHTTPProbe, ContinueChan, savedReport, gateBy>>
    /\ Others

\* build.go:328-335
NewImageInspector2 ==
    /\ procState = "running"
    /\ pc = "newImageInspector2"
    /\ \E res \in {"error", "noImage", "ok"} :
        CASE res = "error" ->
                Guarded(TRUE, "inspect2", <<"image.NewInspector(new)">>, <<>>)
          [] res = "noImage" ->
                Continue("returned", <<"image.NewInspector(new)", "NoImage(new)">>,
                         <<"info=results message='minified image not found'",
                           "state=exited">>)
          [] OTHER ->
                Continue("inspect2", <<"image.NewInspector(new)", "NoImage(new)">>, <<>>)
    /\ RestOfOrch /\ Others

\* build.go:337-377: a failed Inspect is warned about and recorded
InspectNewImage ==
    /\ procState = "running"
    /\ pc = "inspect2"
    /\ \E err \in BOOLEAN :
        /\ Warned(err, "finish", <<"newImageInspector.Inspect">>,
                  IF err THEN <<>> ELSE <<"info=results status='MINIFIED BY'">>)
        /\ cmdReportState' = IF err /\ ~WarnOn(err) THEN "error" ELSE cmdReportState
    /\ UNCHANGED <<command, Mode, doHTTPProbe, ContinueChan, savedReport, gateBy>>
    /\ Others

\* build.go:379-443, part_000:209-234
Finish ==
    /\ procState = "running"
    /\ pc = "finish"
    /\ Continue("returned", <<"cmdReport.Save">>, <<"state=done">>)
    /\ cmdReportState' = "done"
    /\ savedReport' = "done"
    /\ UNCHANGED <<command, Mode, doHTTPProbe, ContinueChan, gateBy>>
    /\ Others

\* the caller's signal handler puts a value on the channel it configured
SendSignal ==
    /\ procState = "running"
    /\ Mode = "signal"
    /\ ~sigSent
    /\ sigSent' = TRUE
    /\ sigPending' = TRUE
    /\ UNCHANGED <<planVars, probeVars, orchVars, workerVars, procState, out>>

Command ==
    \/ Begin
    \/ ConfirmNetwork
    \/ NewImageInspector
    \/ InspectImage
    \/ ProcessImageData
    \/ NewContainerInspector
    \/ RunContainer
    \/ SkipProbe
    \/ ProbePanics
    \/ StartProbe
    \/ Gate
    \/ FinishMonitoring
    \/ ShutdownContainer
    \/ HasCollectedData
    \/ ProcessContainerData
    \/ NewImageBuilder
    \/ BuildImage
    \/ NewImageInspector2
    \/ InspectNewImage
    \/ Finish

----------------------------------------------------------------------------
(* Spec: one invocation and its probe worker.                              *)

\* the fields the probe worker and the planner have before they run
ProbeIdle ==
    /\ Ports = <<>>
    /\ probeBuilt = "no"
    /\ doneChan = "open"
    /\ wpc = "notStarted"
    /\ portIdx = 0 /\ cmdIdx = 0 /\ protoIdx = 0 /\ attempt = 0
    /\ callCount = 0 /\ errCount = 0 /\ okCount = 0
    /\ summary = <<>>
    /\ closeCount = 0
    /\ sleepSecs = 0
    /\ lastErr = "none"
    /\ openBodies = 0
    /\ probeOut = <<>>

\* build.go:65-71: cmdReport.State = report.CmdStateStarted
Init ==
    /\ command \in {"build", "profile"}
    /\ Mode \in Modes
    /\ doHTTPProbe \in BOOLEAN
    /\ ContinueChan = "signal"
    /\ pc = "begin"
    /\ procState = "running"
    /\ exitCode = 0
    /\ cmdReportState = "started"
    /\ savedReport = "none"
    /\ out = <<>>
    /\ calls = <<>>
    /\ gateBy = "none"
    /\ sigPending = FALSE /\ sigSent = FALSE
    /\ nsPorts = <<>> /\ ExposedPorts = <<>> /\ TargetPorts = <<>>
    /\ Cmds = <<>> /\ RetryCount = 0 /\ RetryWait = 0
    /\ ProbeFull = FALSE /\ PrintState = FALSE
    /\ ProbeIdle

Next == Command \/ Worker \/ SendSignal

Spec == Init /\ [][Next]_vars

----------------------------------------------------------------------------
(* SpecPlan: NewCustomProbe over every bounded input.                      *)

InitPlan ==
    /\ nsPorts \in PortMaps
    /\ \/ /\ TargetPorts = <<>>
          /\ ExposedPorts \in SeqsUpTo(ExposeEntries, MaxExposed)
       \/ /\ TargetPorts \in SeqsUpTo(TargetNumbers, MaxTargets) \ {<<>>}
          /\ ExposedPorts \in {<<>>, <<PortSpec(80, "")>>}
    /\ command = "build" /\ Mode = "probe" /\ doHTTPProbe = TRUE
    /\ ContinueChan = "signal"
    /\ pc = "probe"
    /\ procState = "running"
    /\ exitCode = 0
    /\ cmdReportState = "started"
    /\ savedReport = "none"
    /\ out = <<>>
    /\ calls = <<>>
    /\ gateBy = "none"
    /\ sigPending = FALSE /\ sigSent = FALSE
    /\ Cmds = <<>> /\ RetryCount = 0 /\ RetryWait = 0
    /\ ProbeFull = FALSE /\ PrintState = FALSE
    /\ ProbeIdle

\* NewCustomProbe returns (custom_probe.go:114)
PlanReturns ==
    /\ probeBuilt = "no"
    /\ ~NewCustomProbePanics(nsPorts, ExposedPorts, TargetPorts)
    /\ Ports' \in NewCustomProbePorts(nsPorts, ExposedPorts, TargetPorts)
    /\ probeBuilt' = "yes"
    /\ UNCHANGED <<nsPorts, ExposedPorts, TargetPorts>>
    /\ UNCHANGED <<probeVars, orchVars, sigVars, workerVars, procState, out>>

\* NewCustomProbe panics (custom_probe.go:67, 76, 94)
PlanPanics ==
    /\ probeBuilt = "no"
    /\ NewCustomProbePanics(nsPorts, ExposedPorts, TargetPorts)
    /\ probeBuilt' = "panic"
    /\ procState' = "panicked"
    /\ UNCHANGED <<nsPorts, ExposedPorts, TargetPorts, Ports>>
    /\ UNCHANGED <<probeVars, orchVars, sigVars, workerVars, out>>

NextPlan == PlanReturns \/ PlanPanics

SpecPlan == InitPlan /\ [][NextPlan]_vars

----------------------------------------------------------------------------
(* SpecProbe: a started probe and its worker alone, with longer retry      *)
(* loops than Spec explores.                                               *)

\* largest RetryCount explored for the worker alone
MaxProbeRetryCount == 3
\* most attempts one port can take in the configurations explored
MaxProbeAttempts == 6
\* longest command list explored for the worker alone
MaxProbeCmds == 2

\* config.HTTPProbeCmd: the commands of ProbeCmds and a POST that names no
\* protocol
WorkerCmds == ProbeCmds \cup {[Method |-> "POST", Protocol |-> ""]}

WorkerConfigs ==
    {c \in [Cmds : SeqsUpTo(WorkerCmds, MaxProbeCmds),
            RetryCount : 0..MaxProbeRetryCount,
            RetryWait : RetryWaits, ProbeFull : BOOLEAN] :
        Slots(c.Cmds) * MaxRetries(c.RetryCount) <= MaxProbeAttempts}

\* the inputs of NewCustomProbe the started probes are built from: those of
\* PlanInputs and a bound target port
WorkerPlanInputs ==
    PlanInputs \cup
    {[ns |-> ControlOnly @@ (PortSpec(8080, "tcp") :> <<h3>>),
      exposed |-> <<>>, targets |-> <<8080>>]}

\* custom_probe.go:39-122: NewCustomProbe has returned and Start has launched
\* the goroutine.  Start is exported: it also runs on a probe whose plan is
\* empty, which the two commands never start.
InitProbe ==
    /\ \E in \in WorkerPlanInputs :
        /\ ~NewCustomProbePanics(in.ns, in.exposed, in.targets)
        /\ nsPorts = in.ns
        /\ ExposedPorts = in.exposed
        /\ TargetPorts = in.targets
        /\ Ports \in NewCustomProbePorts(in.ns, in.exposed, in.targets)
    /\ probeBuilt = "yes"
    /\ \E c \in WorkerConfigs :
        /\ Cmds = c.Cmds
        /\ RetryCount = c.RetryCount
        /\ RetryWait = c.RetryWait
        /\ ProbeFull = c.ProbeFull
    /\ PrintState = CallerPrintState
    /\ command = "build" /\ Mode = "probe" /\ doHTTPProbe = TRUE
    /\ ContinueChan = "done"
    /\ pc = "gate"
    /\ procState = "running"
    /\ exitCode = 0
    /\ cmdReportState = "started"
    /\ savedReport = "none"
    /\ out = <<"state=http.probe.starting">>
    /\ calls = <<"NewCustomProbe", "probe.Start">>
    /\ gateBy = "none"
    /\ sigPending = FALSE /\ sigSent = FALSE
    /\ doneChan = "open"
    /\ wpc = "warmup"
    /\ portIdx = 0 /\ cmdIdx = 0 /\ protoIdx = 0 /\ attempt = 0
    /\ callCount = 0 /\ errCount = 0 /\ okCount = 0
    /\ summary = <<>>
    /\ closeCount = 0
    /\ sleepSecs = 0
    /\ lastErr = "none"
    /\ openBodies = 0
    /\ probeOut = <<>>

NextProbe == Worker

SpecProbe == InitProbe /\ [][NextProbe]_vars

\* the same probes against a target that resets every connection
NextReset ==
    \/ WorkerWarmup
    \/ WorkerCallPanics
    \/ WorkerCallReset
    \/ WorkerWake
    \/ WorkerSummary
    \/ WorkerClose
    \/ WorkerReturn

SpecReset == InitProbe /\ [][NextReset]_vars

----------------------------------------------------------------------------
(* Properties of one invocation (Spec).                                    *)

DoneLines ==
    {"state=http.probe.done ", "state=http.probe.done warning=no.calls",
     "state=http.probe.done warning=no.successful.calls"}

\* the summary line and, after it, the state=http.probe.done line are out
SummaryEmitted ==
    \E i, j \in 1..Len(probeOut) :
        /\ i < j
        /\ probeOut[i] = "info=http.probe.summary"
        /\ probeOut[j] \in DoneLines

Called(call) == \E i \in 1..Len(calls) : calls[i] = call

\* C1: the done-channel of a started probe is closed at most once, and only
\* after the summary line and the state=http.probe.done line were printed,
\* also when the worker made no attempt.
C1_DoneClosedOnceAfterSummary ==
    /\ closeCount <= 1
    /\ doneChan = "closed" => (closeCount = 1 /\ SummaryEmitted)

\* a probe that made no attempt has closed its channel
C1_Witness == doneChan = "closed" /\ callCount = 0 /\ Len(Ports) > 0

\* the worker stopped by itself: it returned, or it panicked in an attempt
WorkerStopped == wpc = "returned" \/ (procState = "panicked" /\ wpc = "call")

\* C2: whatever the outcome of building a request and of an HTTP call, the
\* worker does not stop without having closed the done-channel.
C2_NoStopWithoutClose == WorkerStopped => doneChan = "closed"

\* C3: under the signal policy the gate resolves only by a value received
\* on the caller's signal channel, never by the probe completing.
C3_SignalGateOnlyBySignal ==
    (Mode = "signal" /\ gateBy # "none") => gateBy = "signal"

\* the worker has printed its summary and closed the done-channel
ProbeOver == doneChan = "closed" /\ SummaryEmitted

\* the worker is past its last HTTP call
NoMoreCalls == wpc \in {"return", "returned"}

\* C4 as stated: under the probe policy FinishMonitoring and
\* ShutdownContainer are never called before the worker printed its summary
\* and closed the done-channel, and no HTTP call follows the gate.
C4_Original ==
    Mode = "probe" =>
        /\ (Called("FinishMonitoring") \/ Called("ShutdownContainer")) => ProbeOver
        /\ gateBy # "none" => NoMoreCalls

\* C4, amended: the same for every invocation that started its probe (the
\* PortPlan was not empty).
C4_ShutdownAfterProbe ==
    (Mode = "probe" /\ wpc # "notStarted") =>
        /\ (Called("FinishMonitoring") \/ Called("ShutdownContainer")) => ProbeOver
        /\ gateBy # "none" => NoMoreCalls

\* the probe policy shut the container down after a probe that made calls
C4_Witness ==
    /\ Mode = "probe"
    /\ Called("ShutdownContainer")
    /\ gateBy = "done"
    /\ callCount > 1

\* C5: an invocation that returns, on whichever path, has written the
\* report with its final state tag.
C5_ReportSavedOnEveryReturn ==
    pc = "returned" => (savedReport # "none" /\ savedReport = cmdReportState)

\* C6: a fatal error of a collaborator ends the run with the report's state
\* tag set to Error.
C6_FatalSetsError == procState = "failed" => cmdReportState = "error"

\* how many times a collaborator call was made
CountCalls(call) == Cardinality({i \in 1..Len(calls) : calls[i] = call})

\* one of the calls of S was made
CalledIn(S) == \E i \in 1..Len(calls) : calls[i] \in S

\* the first time a call of S was made, 0 when none was
FirstCallIn(S) ==
    IF CalledIn(S) THEN CHOOSE i \in 1..Len(calls) :
                            /\ calls[i] \in S
                            /\ \A j \in 1..(i - 1) : calls[j] \notin S
    ELSE 0

FirstCall(call) == FirstCallIn({call})

\* ShutdownContainer, whether or not it returned an error
ShutdownCalls == {"ShutdownContainer", "ShutdownContainer:error"}

\* the last lines the command printed
LastLines(n) == SubSeq(out, Len(out) - n + 1, Len(out))

\* C13: when a probe is wanted and the plan NewCustomProbe built is empty,
\* the command prints state=http.probe.error, calls FinishMonitoring and
\* then ShutdownContainer once each, prints state=exited and returns with
\* no error; no probe worker is started and the gate is not reached.
C13_EmptyPlanLeaves ==
    (probeBuilt = "yes" /\ Len(Ports) = 0) =>
        /\ doHTTPProbe
        /\ Len(out) >= 2
        /\ LastLines(2) = <<"state=http.probe.error", "state=exited">>
        /\ CountCalls("FinishMonitoring") = 1
        /\ CountCalls("ShutdownContainer") + CountCalls("ShutdownContainer:error") = 1
        /\ FirstCall("FinishMonitoring") < FirstCall("ShutdownContainer")
        /\ pc = "returned" /\ procState = "running" /\ exitCode = 0
        /\ wpc = "notStarted" /\ ~Called("probe.Start")
        /\ gateBy = "none"

\* probing was asked for under the enter policy and the plan came out empty
C13_Witness ==
    /\ probeBuilt = "yes" /\ Len(Ports) = 0
    /\ Mode = "enter"
    /\ Called("ShutdownContainer")

\* the call that has returned just before each call made after the gate
CallBefore ==
    [c \in {"ShutdownContainer", "ShutdownContainer:error"} |-> {"FinishMonitoring"}]
    @@ ("HasCollectedData" :> ShutdownCalls)
    @@ ("containerInspector.ProcessCollectedData" :> {"HasCollectedData"})
    @@ ("builder.NewImageBuilder" :> {"containerInspector.ProcessCollectedData"})
    @@ ("builder.Build" :> {"builder.NewImageBuilder"})

\* the command went on to the gate: it did not leave on an empty plan
GatePath == ~(probeBuilt = "yes" /\ Len(Ports) = 0)

\* C14: in an invocation that reaches the gate the calls are made in the
\* order gate, FinishMonitoring, ShutdownContainer, HasCollectedData, the
\* container inspector's ProcessCollectedData, then (build only)
\* NewImageBuilder and Build, each after the one before it has returned.
C14_CallsInOrder ==
    GatePath =>
        /\ Called("FinishMonitoring") => gateBy # "none"
        /\ CountCalls("FinishMonitoring") <= 1
        /\ \A j \in 1..Len(calls) :
              calls[j] \in DOMAIN CallBefore =>
                  (j > 1 /\ calls[j - 1] \in CallBefore[calls[j]])
        /\ Called("builder.NewImageBuilder") => command = "build"

\* a build whose gate the timer resolved got as far as building the image
C14_Witness ==
    /\ command = "build"
    /\ gateBy = "timer"
    /\ Called("builder.Build")
    /\ Called("ShutdownContainer:error")

\* confirmNetwork did not find the requested network
NetworkUnknown == \E i \in 1..Len(out) : out[i] = "info=param.error"

\* C15: when the requested network does not exist the invocation prints
\* state=exited and exits with code -111; no image inspector was built, no
\* container run, no probe started and no report saved.
C15_UnknownNetworkExits ==
    /\ NetworkUnknown =>
            /\ procState = "exited" /\ exitCode = -111
            /\ LastLines(1) = <<"state=exited">>
            /\ calls = <<"confirmNetwork">>
            /\ probeBuilt = "no" /\ wpc = "notStarted"
            /\ savedReport = "none"
    /\ exitCode = -111 => NetworkUnknown

\* a profile run that found its network missing
C15_Witness == command = "profile" /\ NetworkUnknown /\ procState = "exited"

\* the lines of out that are the 'target image not found' line
NotFoundLines == {i \in 1..Len(out) : out[i] = "target image not found"}

\* C16: when the image does not exist the invocation prints one 'target
\* image not found' line, then state=exited, and returns: the image is not
\* inspected, no container is run, no probe started, nothing built; the
\* report's state is not set to Completed and no such report is written.
C16_NoImageReturns ==
    NotFoundLines # {} =>
        /\ Cardinality(NotFoundLines) = 1
        /\ LastLines(2) = <<"target image not found", "state=exited">>
        /\ pc = "returned" /\ procState = "running"
        /\ calls = <<"confirmNetwork", "image.NewInspector", "NoImage">>
        /\ probeBuilt = "no" /\ wpc = "notStarted"
        /\ cmdReportState = "started"
        /\ savedReport # "completed"

\* a build that did not find its image
C16_Witness == command = "build" /\ NotFoundLines # {} /\ pc = "returned"

\* C22: under the timeout and enter policies the command goes on to
\* FinishMonitoring and ShutdownContainer when its own gate source
\* resolves, whatever the probe is doing: it never waits for the probe's
\* done-channel, and the container can be shut down while the channel is
\* still open.
C22_GateIgnoresProbe ==
    Mode \in {"enter", "timeout"} =>
        /\ (pc = "gate" /\ procState = "running") => ENABLED Gate
        /\ gateBy \in {"none", IF Mode = "enter" THEN "stdin" ELSE "timer"}
        /\ Called("FinishMonitoring") => (gateBy # "none" \/ ~GatePath)

\* under the timeout policy the container was shut down while the probe
\* worker was still in its retry loop, the done-channel open
C22_Witness ==
    /\ Mode = "timeout"
    /\ gateBy = "timer"
    /\ CalledIn(ShutdownCalls)
    /\ wpc \in {"call", "sleeping"}
    /\ doneChan = "open"

\* the last collaborator call made
LastCall == IF calls = <<>> THEN "none" ELSE calls[Len(calls)]

\* C23: an error of ShutdownContainer does not end the run: the command
\* goes on to HasCollectedData and, with data collected, through the
\* processing of the artifacts (and the build of the minified image) to
\* the report, as it does after a shutdown without error.
C23_ShutdownErrorNotFatal ==
    /\ LastCall \in ShutdownCalls =>
            /\ procState # "failed"
            /\ GatePath =>
                    /\ pc = "hasData"
                    /\ LastLines(1) = <<"state=container.inspection.artifact.processing">>
    /\ (pc = "hasData" /\ procState = "running") => ENABLED HasCollectedData
    /\ savedReport # "none" => CalledIn(ShutdownCalls)

\* a build whose shutdown returned an error built the minified image and
\* saved its report
C23_Witness ==
    /\ command = "build"
    /\ Called("ShutdownContainer:error")
    /\ Called("builder.Build")
    /\ savedReport = "done"

\* HasCollectedData returned false
NoData == Called("ShowFatImageDockerInstructions")

\* C24: when HasCollectedData returns false the command shows the
\* instructions of the original image, prints state=exited and returns;
\* the container inspector's ProcessCollectedData is not called, no image
\* builder is built or run, and the report's state is never Completed or
\* Done.
C24_NoDataReturns ==
    NoData =>
        /\ pc = "returned"
        /\ LastCall = "ShowFatImageDockerInstructions"
        /\ calls[Len(calls) - 1] = "HasCollectedData"
        /\ calls[Len(calls) - 2] \in ShutdownCalls
        /\ LastLines(2) = <<"info=results", "state=exited">>
        /\ ~Called("containerInspector.ProcessCollectedData")
        /\ ~Called("builder.NewImageBuilder") /\ ~Called("builder.Build")
        /\ cmdReportState \notin {"completed", "done"}
        /\ savedReport \notin {"completed", "done"}

\* a build that collected no data although its probe made calls
C24_Witness ==
    /\ command = "build"
    /\ NoData
    /\ pc = "returned"
    /\ callCount > 0

\* RunContainer returned without error
RunSucceeded == Called("RunContainer") /\ pc # "runContainer"

\* the invocation has ended: it returned, exited or failed
Ended == pc = "returned" \/ procState \in {"exited", "failed"}

\* C25: an invocation whose RunContainer succeeded has called
\* ShutdownContainer exactly once when it ends, whatever the continue-after
\* mode, one that is none of enter, signal, timeout and probe included.
C25_ShutdownOnceAfterRun ==
    (RunSucceeded /\ Ended) =>
        Cardinality({i \in 1..Len(calls) : calls[i] \in ShutdownCalls}) = 1

\* the steps of the report's state tag the specification allows
ReportSteps ==
    {<<"started", "completed">>, <<"completed", "done">>, <<"completed", "error">>}

\* C26: in a build the report's state tag goes from Started to Completed
\* to Done, or ends in Error; Error, once set, is never overwritten, and
\* the report saved at the end of such a run carries Error.
C26_ErrorAbsorbing ==
    [][command = "build" =>
        /\ cmdReportState' # cmdReportState =>
                <<cmdReportState, cmdReportState'>> \in ReportSteps
        /\ cmdReportState = "error" =>
                (cmdReportState' = "error" /\ savedReport' \in {"none", "error"})]_vars

----------------------------------------------------------------------------
(* Properties of NewCustomProbe (SpecPlan).                                *)

\* the host ports the two control ports are bound to
ControlBindings(ns) ==
    {ns[k][1] : k \in {k \in DOMAIN ns \cap {CmdPort, EvtPort} : ns[k] # <<>>}}

\* the host ports of every other bound container port
OtherBindings(ns) ==
    {ns[k][1] : k \in {k \in DOMAIN ns \ {CmdPort, EvtPort} : ns[k] # <<>>}}

\* an EXPOSE entry as a key of the bound-port map, /tcp when it names no
\* protocol
ExposedKey(e) == [num |-> e.num, proto |-> IF e.proto = "" THEN "tcp" ELSE e.proto]

ExposedIsBound(e) == ExposedKey(e) \in DOMAIN nsPorts

TargetIsBound(n) == [num |-> n, proto |-> "tcp"] \in DOMAIN nsPorts

Reverse(s) == [i \in 1..Len(s) |-> s[Len(s) + 1 - i]]

\* the host ports of the bound entries of ExposedPorts, last entry first
ExposedPrefix ==
    LET bound == SelectSeq(ExposedPorts, ExposedIsBound)
    IN  Reverse([i \in 1..Len(bound) |-> nsPorts[ExposedKey(bound[i])][1]])

\* what follows the prefix in the plan
PlanSuffix == SubSeq(Ports, Len(ExposedPrefix) + 1, Len(Ports))

\* the plan is the prefix, then each remaining available port once
PrefixThenRemaining ==
    /\ Len(Ports) >= Len(ExposedPrefix)
    /\ SubSeq(Ports, 1, Len(ExposedPrefix)) = ExposedPrefix
    /\ Range(PlanSuffix) = OtherBindings(nsPorts) \ Range(ExposedPrefix)
    /\ Len(PlanSuffix) = Cardinality(Range(PlanSuffix))

\* C7: the plan holds no host port a control port is bound to, whether the
\* plan comes from target_ports or from the exposed ports.
C7_NoControlPortInPlan ==
    probeBuilt = "yes" =>
        \A i \in 1..Len(Ports) : Ports[i] \notin ControlBindings(nsPorts)

\* C8: without target_ports the plan starts with the host ports of the bound
\* exposed ports in reverse declaration order and goes on with exactly the
\* remaining available host ports, none of them bound to a control port and
\* none already in the prefix.
C8_ExposedThenRemaining ==
    (probeBuilt = "yes" /\ TargetPorts = <<>>) =>
        /\ PrefixThenRemaining
        /\ \A h \in Range(PlanSuffix) : h \notin ControlBindings(nsPorts)

\* C9: with target_ports the plan is exactly the host ports of the targets
\* whose <port>/tcp key is bound, in the order of target_ports.
C9_TargetsInOrder ==
    (probeBuilt = "yes" /\ Len(TargetPorts) > 0) =>
        LET bound == SelectSeq(TargetPorts, TargetIsBound)
        IN  Ports = [i \in 1..Len(bound) |->
                        nsPorts[[num |-> bound[i], proto |-> "tcp"]][1]]

\* of two targets one is dropped, and a bound port that is no target stays out
C9_Witness ==
    /\ probeBuilt = "yes"
    /\ Len(TargetPorts) = 2
    /\ Len(Ports) = 1
    /\ OtherBindings(nsPorts) \ Range(Ports) # {}

\* C10: the planner fails on no bound-port map, one with a container port
\* that has no host binding included.
C10_PlannerNeverFails == probeBuilt # "panic"

\* C27: the plan NewCustomProbe builds holds no host port twice, whatever
\* the bound-port map, the exposed ports (a port repeated, or named with
\* and without /tcp) and target_ports (a port repeated).
C27_NoPortTwice ==
    probeBuilt = "yes" =>
        \A i, j \in 1..Len(Ports) : Ports[i] = Ports[j] => i = j

----------------------------------------------------------------------------
(* Properties of the probe worker (SpecProbe).                             *)

\* the (port, command, protocol) the worker is at
Triple == <<portIdx, cmdIdx, protoIdx>>

\* the worker is inside the retry loop of a triple
InTriple == wpc \in {"call", "sleeping"}

\* the attempts issued so far for the triple the worker is at
TripleCalls == IF wpc = "sleeping" THEN attempt + 1 ELSE attempt

\* max_retries as the specification gives it
RetryBudget == IF RetryCount > 0 THEN RetryCount ELSE 5

\* C11: a triple the worker visits gets at least one attempt and at most
\* max_retries attempts (retry_count when positive, else 5), and none
\* after one of its attempts succeeded.
C11_AttemptsWithinBudget ==
    /\ [](InTriple => TripleCalls <= RetryBudget)
    /\ [][(InTriple /\ Triple' # Triple) =>
            /\ TripleCalls + (callCount' - callCount) >= 1
            /\ TripleCalls + (callCount' - callCount) <= RetryBudget]_vars
    /\ [][(InTriple /\ callCount' > callCount) => TripleCalls < RetryBudget]_vars
    /\ [][okCount' > okCount => Triple' # Triple]_vars

\* with retry_count 2, one triple used both attempts and another succeeded
C11_Witness ==
    /\ RetryCount = 2
    /\ errCount = 2
    /\ okCount = 1
    /\ callCount = 3

\* the worker goes from one port to another, or from a port to the summary
LeavesPort == InTriple /\ portIdx' # portIdx

\* the triple that follows the one the worker is at, on the same port
NextOnPort ==
    IF protoIdx < Len(Protocols(Cmds[cmdIdx]))
    THEN <<portIdx, cmdIdx, protoIdx + 1>>
    ELSE <<portIdx, cmdIdx + 1, 1>>

\* C12: with probe_full false no request goes to a port after the one a
\* call succeeded on, every command and protocol of that port still being
\* exercised; with probe_full true every port of the plan is visited.
C12_StopAfterSuccessfulPort ==
    /\ [][(LeavesPort /\ ~ProbeFull /\ okCount' > 0) => portIdx' = 0]_vars
    /\ [][LeavesPort =>
            /\ cmdIdx = Len(Cmds)
            /\ protoIdx = Len(Protocols(Cmds[cmdIdx]))]_vars
    /\ [][(InTriple /\ Triple' # Triple /\ ~LeavesPort) => Triple' = NextOnPort]_vars
    /\ [][(LeavesPort /\ (ProbeFull \/ okCount' = 0)) =>
            portIdx' = IF portIdx < Len(Ports) THEN portIdx + 1 ELSE 0]_vars
    /\ [](callCount > 0 => portIdx \in 0..Len(Ports))

\* after a success on the first of two ports the second command is still
\* to be called there
C12_Witness ==
    /\ ~ProbeFull
    /\ Len(Ports) = 2
    /\ okCount = 1
    /\ portIdx = 1 /\ cmdIdx = 2
    /\ wpc = "call"

\* the waits as the specification gives them: (W_web, W_not_ready, W_other)
\* is (8, 16, 4) without retry_wait and (R, 2R, R div 2) with retry_wait R
SpecifiedWait(R, class) ==
    CASE class = "notReady" -> IF R = 0 THEN 16 ELSE 2 * R
      [] class = "webError" -> IF R = 0 THEN 8 ELSE R
      [] class = "otherError" -> IF R = 0 THEN 4 ELSE R \div 2

\* C17: after a failed attempt the worker sleeps the wait of the error's
\* class (end of stream, other URL error, any other error), which is 16, 8,
\* 4 seconds without retry_wait and 2R, R, R div 2 with retry_wait R; after
\* a successful attempt it does not sleep.
C17_WaitsByErrorClass ==
    /\ [](wpc = "sleeping" =>
            /\ lastErr \in {"notReady", "webError", "otherError"}
            /\ sleepSecs = SpecifiedWait(RetryWait, lastErr))
    /\ []((wpc = "sleeping" /\ RetryWait = 10) =>
            sleepSecs = (CASE lastErr = "notReady" -> 20
                           [] lastErr = "webError" -> 10
                           [] OTHER -> 5))
    /\ [](wpc # "sleeping" => sleepSecs = 0)
    /\ [][errCount' > errCount => wpc' = "sleeping"]_vars
    /\ [][okCount' > okCount => (wpc' # "sleeping" /\ sleepSecs' = 0)]_vars

\* with retry_wait 10 the worker sleeps 20 s after an end of stream
C17_Witness ==
    /\ wpc = "sleeping"
    /\ RetryWait = 10
    /\ lastErr = "notReady"
    /\ sleepSecs = 20

\* C18: a response body an attempt obtained is drained and closed before
\* the next request is issued: no attempt is issued while a body of an
\* earlier attempt is open.
C18_NoOpenBodyAtAttempt == [][callCount' > callCount => openBodies = 0]_vars

\* the worker has printed its last line
PastSummary == wpc \in {"close", "return", "returned"}

\* the state=http.probe.done line the specification asks for
SpecifiedDoneLine ==
    IF callCount = 0 THEN "state=http.probe.done warning=no.calls"
    ELSE IF okCount = 0 THEN "state=http.probe.done warning=no.successful.calls"
    ELSE "state=http.probe.done "

\* C19: the state=http.probe.done line carries warning=no.calls exactly
\* when no attempt was made (so for an empty plan or an empty command
\* list), warning=no.successful.calls exactly when attempts were made and
\* none succeeded, and no warning otherwise; the total of the summary is
\* its failures plus its successes.
C19_WarningByCounts ==
    /\ callCount = errCount + okCount
    /\ (Len(Ports) = 0 \/ Len(Cmds) = 0) => callCount = 0
    /\ PastSummary =>
            /\ Len(probeOut) >= 2
            /\ probeOut[Len(probeOut)] = SpecifiedDoneLine
            /\ probeOut[Len(probeOut) - 1] = "info=http.probe.summary"
            /\ summary = <<callCount, errCount, okCount>>
            /\ summary[1] = summary[2] + summary[3]

\* a probe whose attempts all failed has printed its last line
C19_Witness ==
    /\ PastSummary
    /\ callCount >= 2
    /\ okCount = 0
    /\ probeOut[Len(probeOut)] = "state=http.probe.done warning=no.successful.calls"

\* the protocol of the triple the worker is at
CurrentProto == Protocols(Cmds[cmdIdx])[protoIdx]

\* the command of the triple the worker is at names no protocol
NoProtocol == Cmds[cmdIdx].Protocol = ""

\* the worker goes on to another triple or to the summary
LeavesTriple == InTriple /\ Triple' # Triple

\* C21: a command without a protocol is exercised over http and then over
\* https on the same port, each with a retry budget of its own, https also
\* after an http attempt succeeded; a command that names a protocol is
\* exercised over that protocol alone.
C21_BothProtocolsWhenUnset ==
    /\ [](InTriple =>
            CurrentProto \in (IF NoProtocol THEN {"http", "https"}
                              ELSE {Cmds[cmdIdx].Protocol}))
    /\ [](InTriple /\ attempt = 0 /\ wpc = "call" /\ protoIdx = 1 /\ NoProtocol =>
            CurrentProto = "http")
    /\ [][(LeavesTriple /\ NoProtocol /\ CurrentProto = "http") =>
            /\ wpc' = "call"
            /\ portIdx' = portIdx /\ cmdIdx' = cmdIdx
            /\ CurrentProto' = "https"
            /\ attempt' = 0]_vars
    /\ [][(LeavesTriple /\ ~(NoProtocol /\ CurrentProto = "http")) =>
            <<portIdx, cmdIdx>>' # <<portIdx, cmdIdx>>]_vars
    /\ [][(LeavesTriple /\ okCount' = okCount) => TripleCalls = RetryBudget]_vars

\* the http attempt of a command without a protocol succeeded at once and
\* the https attempt is about to be made
C21_Witness ==
    /\ wpc = "call"
    /\ NoProtocol
    /\ CurrentProto = "https"
    /\ callCount = 1
    /\ okCount = 1

----------------------------------------------------------------------------
(* Properties of the probe worker against a target that resets every       *)
(* connection (SpecReset).                                                 *)

\* scenario S2 with the command's protocol proto: target port 8080 bound,
\* one POST command, retry_count 3, retry_wait 0
S2(proto) ==
    /\ TargetPorts = <<8080>>
    /\ Len(Ports) = 1
    /\ Len(Cmds) = 1
    /\ Cmds[1].Method = "POST"
    /\ Cmds[1].Protocol = proto
    /\ RetryCount = 3
    /\ RetryWait = 0

\* the probe of S2 makes at most n calls, each of them failed and followed
\* by a sleep of 8 s, and ends with total = failures = n and
\* warning=no.successful.calls
S2Makes(proto, n) ==
    S2(proto) =>
        /\ callCount <= n /\ okCount = 0 /\ errCount = callCount
        /\ wpc = "sleeping" => (lastErr = "webError" /\ sleepSecs = 8)
        /\ wpc = "call" => callCount = (protoIdx - 1) * 3 + attempt
        /\ PastSummary =>
                /\ summary = <<n, n, 0>>
                /\ probeOut[Len(probeOut)] =
                       "state=http.probe.done warning=no.successful.calls"

\* C20 as stated: in S2, the command given a method, a body and a header
\* and so no protocol, the probe makes exactly three calls, each followed
\* by a wait of 8 s, and reports total=3 failures=3 successful=0 with
\* warning=no.successful.calls.
C20_Original == S2Makes("", 3)

\* C20, amended: in S2 with the command naming its protocol the probe makes
\* three calls and reports total=3 failures=3; with no protocol named it
\* makes six, three for http and three for https, and reports total=6
\* failures=6; each call is followed by a wait of 8 s and the warning is
\* no.successful.calls.
C20_S2CallsPerProtocol == S2Makes("http", 3) /\ S2Makes("", 6)

\* the probe of S2 with protocol http has reported its three failures
C20_Witness ==
    /\ S2("http")
    /\ PastSummary
    /\ summary = <<3, 3, 0>>

====
